---------------------------- MODULE Spec2Model ----------------------------
(***************************************************************************)
(* A model of streamlit_app.py (GeoJSON Checker): the geometry inspectors  *)
(* is_ccw / has_more_than_6_decimals, the table builder                    *)
(* geojson_to_dataframe, the filter widgets and their evaluation in main,  *)
(* and the projector filter_geojson.                                       *)
(*                                                                         *)
(* Number encodings                                                        *)
(*   coordinates : integers counting 1e-7, so 12345 is the float           *)
(*                 0.0012345 and 1 is 1e-07.                               *)
(*   table cells : integers counting 1e-3, so 1236 is 1.236; the cell      *)
(*                 values of the model never end in the digit 5, so        *)
(*                 round(x, 2) never meets a tie.                          *)
(*   A missing cell (None / NaN) is the empty tuple Null.                  *)
(***************************************************************************)
EXTENDS Integers, Sequences, FiniteSets, TLC

VARIABLES
    \* ---- the interactive session (main) ----
    original_geojson,   \* st.session_state['original_geojson']
    geojson_data,       \* the value the input widget hands to this run of main
    df,                 \* the attribute table of this run, or NoTable
    filters,            \* column -> value of its filter widget
    filtered_df,        \* the row labels (df.index) that pass the filters
    export,             \* what filter_geojson returned in this run
    \* ---- one call of the geometry inspectors ----
    geom, ccwFlag, decFlag, pcG,
    \* ---- one call of create_numeric_filter and its default application ----
    column, numBounds, numKept, pcN,
    \* ---- one call of filter_geojson ----
    pOriginal, pSelected, pResult, pcP

vars == << original_geojson, geojson_data, df, filters, filtered_df, export,
           geom, ccwFlag, decFlag, pcG,
           column, numBounds, numKept, pcN,
           pOriginal, pSelected, pResult, pcP >>

sessionVars == << original_geojson, geojson_data, df, filters, filtered_df, export >>
geomVars    == << geom, ccwFlag, decFlag, pcG >>
numVars     == << column, numBounds, numKept, pcN >>
projVars    == << pOriginal, pSelected, pResult, pcP >>

-----------------------------------------------------------------------------
(* Python values                                                           *)

PyTrue  == "True"
PyFalse == "False"
PyNone  == "None"

PyBool(b) == IF b THEN PyTrue ELSE PyFalse

Abs(n) == IF n < 0 THEN 0 - n ELSE n

RECURSIVE NumDigits(_)
\* number of decimal digits of n >= 1
NumDigits(n) == IF n < 10 THEN 1 ELSE 1 + NumDigits(n \div 10)

RECURSIVE TrailingZeros(_)
\* number of trailing decimal zeros of n >= 1
TrailingZeros(n) == IF n % 10 # 0 THEN 0 ELSE 1 + TrailingZeros(n \div 10)

-----------------------------------------------------------------------------
(* GeometryInspector: has_more_than_6_decimals                             *)

\* digits after the decimal point that make a coordinate "excessive"
MaxDecimals == 6

\* len(str(float(c)).split(".")[1]), or -1 when the split has no second
\* part (IndexError).  c counts 1e-7, so a coordinate has at most 7
\* fractional digits; repr(float) is scientific below 1e-4 (1000 units),
\* with a two-digit exponent ("e-05": 4 characters).
\*   0.0          -> "0.0"        -> 1
\*   0.0012345    -> "0.0012345"  -> 7
\*   1.23e-05     -> "1.23e-05"   -> len("23e-05") = 6
\*   1e-07        -> "1e-07"      -> no "." : IndexError
FracTextLen(c) ==
    LET a   == Abs(c)
        tz  == TrailingZeros(a)
        sig == NumDigits(a) - tz
    IN  IF a = 0 THEN 1
        ELSE IF a < 1000
             THEN IF sig = 1 THEN -1 ELSE (sig - 1) + 4
             ELSE IF tz >= 7 THEN 1 ELSE 7 - tz

\* the body of the inner loop for one point: "True", "False" or "None"
\* (None = the except branch); `or` short-circuits on the longitude
PointDecimals(point) ==
    LET lonLen == FracTextLen(point[1])
        latLen == FracTextLen(point[2])
    IN  IF lonLen = -1 THEN PyNone
        ELSE IF lonLen > MaxDecimals THEN PyTrue
        ELSE IF latLen = -1 THEN PyNone
        ELSE IF latLen > MaxDecimals THEN PyTrue
        ELSE PyFalse

RECURSIVE ScanPoints(_, _)
\* the points of the rings in iteration order; the first point that is not
\* "False" decides (return True, or the exception that yields None)
ScanPoints(points, i) ==
    IF i > Len(points) THEN PyFalse
    ELSE IF PointDecimals(points[i]) # PyFalse THEN PointDecimals(points[i])
    ELSE ScanPoints(points, i + 1)

RECURSIVE Flatten(_)
Flatten(rings) == IF rings = << >> THEN << >> ELSE Head(rings) \o Flatten(Tail(rings))

has_more_than_6_decimals(coords) == ScanPoints(Flatten(coords), 1)

\* geometries: [type, polys] where polys holds the exterior ring of each
\* polygon (interior rings are read by neither inspector)
safe_check_decimals(g) ==
    IF g.type = "Polygon" \/ g.type = "MultiPolygon"
    THEN has_more_than_6_decimals(g.polys)
    ELSE PyNone

-----------------------------------------------------------------------------
(* GeometryInspector: is_ccw                                               *)

\* shapely.algorithms.cga.signed_area, times two:
\*   sum(xs[i] * (ys[i+1] - ys[i-1]) for i in 1 .. n-1), ring closed, with
\*   xs[1], ys[1] appended (0-based); here 1-based over the closed ring
Y(ring, i) ==
    LET n == Len(ring)
    IN  IF i > n THEN ring[i - n + 1][2] ELSE ring[i][2]

RECURSIVE AreaSum(_, _)
AreaSum(ring, i) ==
    IF i > Len(ring) THEN 0
    ELSE ring[i][1] * (Y(ring, i + 1) - Y(ring, i - 1)) + AreaSum(ring, i + 1)

signed_area2(ring) == AreaSum(ring, 2)

Reverse(s) == [i \in 1..Len(s) |-> s[Len(s) + 1 - i]]

\* shapely.geometry.polygon.orient(polygon, sign=1.0), exterior ring
orient(ring) == IF signed_area2(ring) >= 0 THEN ring ELSE Reverse(ring)

\* LinearRing.is_ccw, for a simple ring of non-zero area
ring_is_ccw(ring) == signed_area2(ring) > 0

PolygonFlag(ring) == ~ ring_is_ccw(orient(ring))

is_ccw(g) ==
    IF g.type = "Polygon" THEN PyBool(PolygonFlag(g.polys[1]))
    ELSE IF g.type = "MultiPolygon"
         THEN PyBool(\E i \in 1..Len(g.polys) : PolygonFlag(g.polys[i]))
    ELSE PyFalse

-----------------------------------------------------------------------------
(* One call of the inspectors on one geometry                              *)

\* coordinate values, in 1e-7: 0.0, 1e-07, 1.23e-05, 0.001234, 0.0012345, 0.002
GeomCoords == {0, 1, 123, 12340, 12345, 20000}

GeomPoints == GeomCoords \X GeomCoords

\* closed triangles of non-zero area: valid polygon exteriors
Triangle(p, q, r) == << p, q, r, p >>

Triangles ==
    { Triangle(p, q, r) : p \in GeomPoints, q \in GeomPoints, r \in GeomPoints }

ValidRings == { t \in Triangles : signed_area2(t) # 0 }

\* the parts of the multipolygons: the triangles on the corners of a square
PartCoords == {0, 20000}

PartRings ==
    { t \in { Triangle(p, q, r) : p \in PartCoords \X PartCoords,
                                   q \in PartCoords \X PartCoords,
                                   r \in PartCoords \X PartCoords } :
        signed_area2(t) # 0 }

\* parts per multipolygon
MaxParts == 2

SeqsUpTo(S, n) == UNION { [1..k -> S] : k \in 0..n }

Polygon(ring) == [type |-> "Polygon", polys |-> << ring >>]
MultiPolygon(rings) == [type |-> "MultiPolygon", polys |-> rings]
PointGeom == [type |-> "Point", polys |-> << >>]

\* the geometries inspected: every polygon on a valid ring, every
\* multipolygon of one to MaxParts parts, and a point
PolygonInputs == { Polygon(r) : r \in ValidRings }

MultiPolygonInputs ==
    { MultiPolygon(rs) : rs \in SeqsUpTo(PartRings, MaxParts) \ { << >> } }

InitGeom ==
    /\ \/ geom \in PolygonInputs
       \/ geom \in MultiPolygonInputs
       \/ geom = PointGeom
    /\ ccwFlag = PyNone
    /\ decFlag = PyNone
    /\ pcG = "input"

IdleGeom ==
    /\ geom = PointGeom
    /\ ccwFlag = PyNone
    /\ decFlag = PyNone
    /\ pcG = "idle"

Inspect ==
    /\ pcG = "input"
    /\ ccwFlag' = is_ccw(geom)
    /\ decFlag' = safe_check_decimals(geom)
    /\ pcG' = "done"
    /\ UNCHANGED geom

-----------------------------------------------------------------------------
(* JSON documents, features and the attribute table                       *)

\* a cell of a property column: << >> is a missing value (None / NaN),
\* << x >> holds x (a number in 1e-3 for "val", a string for "cat")
Null == << >>
Cell(x) == << x >>

\* what the ingestion hands to main: nothing (a failed or absent input),
\* a JSON value that is no mapping, a mapping without "features", or a
\* mapping with a "features" list
NoDoc          == [tag |-> "none",       features |-> << >>]
NonDict        == [tag |-> "nondict",    features |-> << >>]
NoFeaturesDict == [tag |-> "nofeatures", features |-> << >>]
Collection(fs) == [tag |-> "collection", features |-> fs]

\* geometry values of a feature besides Polygon / MultiPolygon / Point:
\*   null        "geometry": null
\*   text        a value that is no mapping, e.g. "geometry": "POINT (0 0)"
\*   empty       "geometry": {}
\*   malformed   a mapping shapely's shape() rejects, e.g. {"type": "Polygon"}
NullGeom      == [type |-> "null",      polys |-> << >>]
TextGeom      == [type |-> "text",      polys |-> << >>]
EmptyGeom     == [type |-> "empty",     polys |-> << >>]
MalformedGeom == [type |-> "malformed", polys |-> << >>]

Feature(g, v, c) == [geometry |-> g, val |-> v, cat |-> c]

\* a test for "geometry is not None" in place of the isinstance test
IsValidFeature_NotNone(f) == f.geometry.type # "null"

\* isinstance(feature.get("geometry"), dict)
IsValidFeature(f) == f.geometry.type \notin {"null", "text"}

RECURSIVE SelectValid(_)
\* the loop of geojson_to_dataframe that collects `features`
SelectValid(fs) ==
    IF fs = << >> THEN << >>
    ELSE IF IsValidFeature(Head(fs)) THEN << Head(fs) >> \o SelectValid(Tail(fs))
    ELSE SelectValid(Tail(fs))

\* GeoDataFrame.from_features: shape(geometry) if geometry else None; it
\* raises on a mapping shape() rejects
FromFeaturesRaises(fs) == \E i \in 1..Len(fs) : fs[i].geometry.type = "malformed"

\* the geometry of the GeoDataFrame row is falsy (None): "geometry": {}
GeomIsNone(g) == g.type = "empty"

\* one row of properties_df
Row(f) ==
    [val          |-> f.val,
     cat          |-> f.cat,
     geometry_wkt |-> f.geometry,
     ccw          |-> IF GeomIsNone(f.geometry) THEN PyNone ELSE is_ccw(f.geometry),
     dec          |-> IF GeomIsNone(f.geometry) THEN PyNone
                      ELSE safe_check_decimals(f.geometry)]

NoTable == [built |-> FALSE, rows |-> << >>]
Table(rows) == [built |-> TRUE, rows |-> rows]

\* geojson_to_dataframe: the table it returns and the stored original
\* collection it leaves behind (stored before the features are looked at)
geojson_to_dataframe(data, stored) ==
    IF data.tag # "collection"
    THEN [df |-> NoTable, original |-> stored]
    ELSE LET features == SelectValid(data.features)
         IN  IF features = << >> \/ FromFeaturesRaises(features)
             THEN [df |-> NoTable, original |-> data]
             ELSE [df |-> Table([i \in 1..Len(features) |-> Row(features[i])]),
                   original |-> data]

\* df.index: the row labels 0 .. n-1
RowLabels(t) == 0 .. (Len(t.rows) - 1)

-----------------------------------------------------------------------------
(* FeatureCollectionProjector: filter_geojson                              *)

NoneResult == [isNone |-> TRUE, features |-> << >>]
FeatureCollection(fs) == [isNone |-> FALSE, features |-> fs]

RECURSIVE PickPositions(_, _, _)
\* [feature for i, feature in enumerate(features) if i in filtered_indices]
PickPositions(fs, indices, i) ==
    IF i >= Len(fs) THEN << >>
    ELSE IF i \in indices THEN << fs[i + 1] >> \o PickPositions(fs, indices, i + 1)
    ELSE PickPositions(fs, indices, i + 1)

filter_geojson(original, indices) ==
    IF original.tag # "collection" THEN NoneResult
    ELSE FeatureCollection(PickPositions(original.features, indices, 0))

-----------------------------------------------------------------------------
(* ColumnFilterEngine: create_numeric_filter                               *)

SetMin(S) == CHOOSE x \in S : \A y \in S : x <= y
SetMax(S) == CHOOSE x \in S : \A y \in S : x >= y

\* round(x, 2) on a value counted in 1e-3 (no value of the model is a tie)
Round2(v) == ((v + 5) \div 10) * 10

\* pd.to_numeric(...).dropna(): the parseable values of a numeric column
ValidValues(cells) == { cells[i][1] : i \in { j \in 1..Len(cells) : cells[j] # Null } }

NoBounds == [some |-> FALSE, lo |-> 0, hi |-> 0]

\* min_val and max_val as create_numeric_filter hands them to st.slider,
\* or NoBounds when it returns None before (no parseable value);
\* "max_val += 1" is + 1000 in 1e-3
SliderBounds(cells) ==
    LET valid   == ValidValues(cells)
        min_val == SetMin(valid)
        max_val == IF SetMin(valid) = SetMax(valid) THEN SetMax(valid) + 1000
                   ELSE SetMax(valid)
    IN  IF valid = {} THEN NoBounds
        ELSE [some |-> TRUE, lo |-> Round2(min_val), hi |-> Round2(max_val)]

\* main, lines 260-264: the rows (positions in cells) a range keeps;
\* a NaN cell compares False
RangeKeeps(cells, lo, hi) ==
    { i \in 1..Len(cells) : cells[i] # Null /\ cells[i][1] >= lo /\ cells[i][1] <= hi }

-----------------------------------------------------------------------------
(* ColumnFilterEngine: create_filter_layout and the evaluation in main     *)

\* df.columns without geometry_wkt (which create_filter_layout skips)
Columns == {"val", "cat", "CCW", "6dec"}

\* a bool / None cell as pd.to_numeric reads it: True 1.0, False 0.0, None NaN
BoolCell(b) == IF b = PyTrue THEN Cell(1000) ELSE IF b = PyFalse THEN Cell(0) ELSE Null

\* the column as a sequence of cells
ColumnCells(t, col) ==
    [i \in 1..Len(t.rows) |->
        IF col = "val" THEN t.rows[i].val
        ELSE IF col = "cat" THEN t.rows[i].cat
        ELSE IF col = "CCW" THEN BoolCell(t.rows[i].ccw)
        ELSE BoolCell(t.rows[i].dec)]

\* pd.to_numeric(df[column], errors='raise') does not raise: no cell holds
\* a string ("cat" holds strings or nothing, the other columns numbers)
IsNumericColumn(t, col) ==
    col # "cat" \/ \A i \in 1..Len(t.rows) : t.rows[i].cat = Null

\* df[column].dropna().unique()
\* an ordered list, in order of first appearance
RECURSIVE UniqueFrom(_, _)
UniqueFrom(cells, seen) ==
    IF cells = << >> THEN seen
    ELSE IF Head(cells) = Null \/ \E k \in 1..Len(seen) : seen[k] = Head(cells)[1]
         THEN UniqueFrom(Tail(cells), seen)
         ELSE UniqueFrom(Tail(cells), Append(seen, Head(cells)[1]))

UniqueValues(cells) == UniqueFrom(cells, << >>)

\* the cap on the options of a multiselect
MaxOptions == 100

\* the value of one filter widget: kind "none" (no widget for the column),
\* "range" (slider: min, max and the chosen (lo, hi)) or "list"
\* (multiselect: the list of options and the chosen values sel; what main
\* does with the chosen list, its truth value and isin, reads it as a set)
NoFilter == [kind |-> "none", min |-> 0, max |-> 0, lo |-> 0, hi |-> 0,
             options |-> << >>, sel |-> {}]
Slider(mn, mx, lo, hi) ==
    [kind |-> "range", min |-> mn, max |-> mx, lo |-> lo, hi |-> hi,
     options |-> << >>, sel |-> {}]
Multiselect(opts, sel) ==
    [kind |-> "list", min |-> 0, max |-> 0, lo |-> 0, hi |-> 0,
     options |-> opts, sel |-> sel]

\* the same widget as in the previous run (same kind and parameters, the
\* options in the same order) keeps the value the user gave it; a new
\* widget starts from its default
SameWidget(w, v) ==
    /\ w.kind = v.kind
    /\ w.min = v.min /\ w.max = v.max
    /\ w.options = v.options

\* one column of create_filter_layout; prev is the column's widget in the
\* previous run
ColumnFilter(t, col, prev) ==
    LET cells == ColumnCells(t, col)
        b     == SliderBounds(cells)
        opts  == UniqueValues(cells)
        fresh == IF IsNumericColumn(t, col)
                 THEN IF b.some THEN Slider(b.lo, b.hi, b.lo, b.hi) ELSE NoFilter
                 ELSE IF Len(opts) > 0 /\ Len(opts) <= MaxOptions
                      THEN Multiselect(opts, {})
                      ELSE NoFilter
    IN  IF SameWidget(fresh, prev) THEN prev ELSE fresh

create_filter_layout(t, prev) == [col \in Columns |-> ColumnFilter(t, col, prev[col])]

NoFilters == [col \in Columns |-> NoFilter]

\* a test for "a widget exists" in place of the truth tests: an empty
\* selection is applied with isin([])
FilterIsSet_AnyWidget(w) == w.kind = "range" \/ w.kind = "list"

\* "if filter_value:" and, for a list, the inner "if filter_value:"
FilterIsSet(w) == w.kind = "range" \/ (w.kind = "list" /\ w.sel # {})

\* df[column].isin(filter_value)
IsinKeeps(cells, sel) == { i \in 1..Len(cells) : cells[i] # Null /\ cells[i][1] \in sel }

\* the positions of the rows one column's filter keeps
ColumnKeeps(t, col, w) ==
    IF ~ FilterIsSet(w) THEN 1..Len(t.rows)
    ELSE IF w.kind = "range" THEN RangeKeeps(ColumnCells(t, col), w.lo, w.hi)
    ELSE IsinKeeps(ColumnCells(t, col), w.sel)

\* main, lines 256-267: the filters narrow filtered_df one after the other,
\* which keeps the rows every set filter keeps; the result is the set of
\* row labels (position - 1)
ApplyFilters(t, fs) ==
    { i - 1 : i \in { j \in 1..Len(t.rows) : \A col \in Columns : j \in ColumnKeeps(t, col, fs[col]) } }

-----------------------------------------------------------------------------
(* main: one run of the script                                             *)

NotCalled == [called |-> FALSE, isNone |-> TRUE, features |-> << >>]
Called(r) == [called |-> TRUE, isNone |-> r.isNone, features |-> r.features]

NoRun(stored) ==
    [original |-> stored, df |-> NoTable, filters |-> NoFilters,
     filtered |-> {}, export |-> NotCalled]

\* main, lines 242-315, for the input `data`, the stored collection of the
\* session and the widget values of the previous run
Run(data, stored, prev) ==
    IF data.tag = "none" THEN NoRun(stored)
    ELSE LET built == geojson_to_dataframe(data, stored)
             fs    == create_filter_layout(built.df, prev)
             kept  == ApplyFilters(built.df, fs)
         IN  IF ~ built.df.built THEN NoRun(built.original)
             ELSE [original |-> built.original,
                   df       |-> built.df,
                   filters  |-> fs,
                   filtered |-> kept,
                   export   |-> IF kept # {} /\ built.original.tag # "none"
                                THEN Called(filter_geojson(built.original, kept))
                                ELSE NotCalled]

\* features per collection
MaxFeatures == 2

\* a clockwise exterior ring with a coordinate str() prints in scientific
\* notation (1e-07): (0.0, 0.0), (0.0, 0.002), (0.002, 1e-07)
RingCW == << <<0, 0>>, <<0, 20000>>, <<20000, 1>>, <<0, 0>> >>

\* the features the collections are made of: a polygon, and one feature
\* for each other kind of geometry value (the empty mapping, a mapping
\* shape() rejects, null, and a string)
FeaturePool ==
    { Feature(Polygon(RingCW), Cell(1001), Cell("a")),
      Feature(EmptyGeom,       Null,       Cell("b")),
      Feature(MalformedGeom,   Cell(1001), Null),
      Feature(NullGeom,        Cell(1236), Cell("a")),
      Feature(TextGeom,        Null,       Cell("b")) }

Collections == { Collection(fs) : fs \in SeqsUpTo(FeaturePool, MaxFeatures) }

DocInputs == { NoDoc, NonDict, NoFeaturesDict } \cup Collections

InitSession ==
    /\ original_geojson = NoDoc
    /\ geojson_data = NoDoc
    /\ df = NoTable
    /\ filters = NoFilters
    /\ filtered_df = {}
    /\ export = NotCalled

Rerun(data, prev) ==
    \E r \in { Run(data, original_geojson, prev) } :
        /\ geojson_data' = data
        /\ original_geojson' = r.original
        /\ df' = r.df
        /\ filters' = r.filters
        /\ filtered_df' = r.filtered
        /\ export' = r.export

\* the user gives a new input (upload, URL or pasted text); NoDoc is an
\* input that fails at ingestion
Load(d) == Rerun(d, filters)

\* x is a value a slider can be dragged to: st.slider is called without a
\* step, which for floats is 0.01 (10 in 1e-3), from min_value up to
\* max_value
IsSliderStop(w, x) ==
    /\ w.kind = "range"
    /\ x >= w.min /\ x <= w.max
    /\ (x - w.min) % 10 = 0

\* the last stop below a value of the column and the first stop above it
StopsAround(w, v) ==
    { w.min + ((v - w.min - 1) \div 10) * 10, w.min + ((v - w.min) \div 10 + 1) * 10 }

\* the stops UserSlider draws the user's drags from, a bounded sample of the
\* slider's stops: the two ends and, for each value of the column, the last
\* stop below it and the first stop above it.  SetSlider itself accepts
\* every stop.  For a range (lo, hi) on any stops, the first stop above the
\* largest value under lo (the lower end if there is none) and the last stop
\* below the smallest value over hi (the upper end if there is none) are
\* both drawn from here and keep the same rows as (lo, hi).
SliderPicks(t, col, w) ==
    IF w.kind # "range" THEN {}
    ELSE { x \in { w.min, w.max } \cup
                 UNION { StopsAround(w, v) : v \in ValidValues(ColumnCells(t, col)) } :
             IsSliderStop(w, x) }

\* the user moves a slider
SetSlider(col, lo, hi) ==
    /\ filters[col].kind = "range"
    /\ IsSliderStop(filters[col], lo)
    /\ IsSliderStop(filters[col], hi)
    /\ lo <= hi
    /\ << lo, hi >> # << filters[col].lo, filters[col].hi >>
    /\ Rerun(geojson_data, [filters EXCEPT ![col].lo = lo, ![col].hi = hi])

\* the user changes the selection of a multiselect
SetMultiselect(col, sel) ==
    /\ filters[col].kind = "list"
    /\ sel \subseteq { filters[col].options[k] : k \in 1..Len(filters[col].options) }
    /\ sel # filters[col].sel
    /\ Rerun(geojson_data, [filters EXCEPT ![col].sel = sel])

-----------------------------------------------------------------------------
(* One call of create_numeric_filter with its default range applied        *)

\* rows per column
MaxColumnLen == 3

\* cells of a numeric column, in 1e-3: NaN, -1.236, 1.001, 1.004, 1.236, 2.004
NumCells == { Null, Cell(0 - 1236), Cell(1001), Cell(1004), Cell(1236), Cell(2004) }

NumColumns == SeqsUpTo(NumCells, MaxColumnLen) \ { << >> }

InitNum ==
    /\ column \in NumColumns
    /\ numBounds = NoBounds
    /\ numKept = {}
    /\ pcN = "input"

IdleNum ==
    /\ column = << >>
    /\ numBounds = NoBounds
    /\ numKept = {}
    /\ pcN = "idle"

\* create_numeric_filter(df, column), then main's range filter with the
\* slider's default value (min_val, max_val)
NumericFilter ==
    /\ pcN = "input"
    /\ numBounds' = SliderBounds(column)
    /\ numKept' = IF SliderBounds(column).some
                  THEN RangeKeeps(column, SliderBounds(column).lo, SliderBounds(column).hi)
                  ELSE 1..Len(column)
    /\ pcN' = "done"
    /\ UNCHANGED column

-----------------------------------------------------------------------------
(* One call of filter_geojson                                              *)

InitProject ==
    /\ pOriginal \in DocInputs
    /\ pSelected \in SUBSET (0 .. (MaxFeatures - 1))
    /\ pResult = NoneResult
    /\ pcP = "input"

IdleProject ==
    /\ pOriginal = NoDoc
    /\ pSelected = {}
    /\ pResult = NoneResult
    /\ pcP = "idle"

Project ==
    /\ pcP = "input"
    /\ pResult' = filter_geojson(pOriginal, pSelected)
    /\ pcP' = "done"
    /\ UNCHANGED << pOriginal, pSelected >>

-----------------------------------------------------------------------------
(* Specifications                                                          *)

UserLoad ==
    /\ \E d \in DocInputs : Load(d)
    /\ UNCHANGED << geomVars, numVars, projVars >>

UserSlider ==
    /\ \E col \in Columns :
         \E lo \in SliderPicks(df, col, filters[col]),
            hi \in SliderPicks(df, col, filters[col]) : SetSlider(col, lo, hi)
    /\ UNCHANGED << geomVars, numVars, projVars >>

UserMultiselect ==
    /\ \E col \in Columns :
         \E sel \in SUBSET { filters[col].options[k] : k \in 1..Len(filters[col].options) } :
            SetMultiselect(col, sel)
    /\ UNCHANGED << geomVars, numVars, projVars >>

\* the interactive session
Init == InitSession /\ IdleGeom /\ IdleNum /\ IdleProject

Next == UserLoad \/ UserSlider \/ UserMultiselect

Spec == Init /\ [][Next]_vars

\* the geometry inspectors on every geometry of InitGeom
InitGeomCall == InitSession /\ InitGeom /\ IdleNum /\ IdleProject

NextGeom == Inspect /\ UNCHANGED << sessionVars, numVars, projVars >>

SpecGeom == InitGeomCall /\ [][NextGeom]_vars

\* create_numeric_filter on every column of NumColumns
InitNumCall == InitSession /\ IdleGeom /\ InitNum /\ IdleProject

NextNum == NumericFilter /\ UNCHANGED << sessionVars, geomVars, projVars >>

SpecNum == InitNumCall /\ [][NextNum]_vars

\* filter_geojson on every document and selection
InitProjectCall == InitSession /\ IdleGeom /\ IdleNum /\ InitProject

NextProject == Project /\ UNCHANGED << sessionVars, geomVars, numVars >>

SpecProject == InitProjectCall /\ [][NextProject]_vars

-----------------------------------------------------------------------------
(* Claims                                                                  *)

\* the features the rows of the table were built from, for the row labels
\* in `labels`, in table order
FeaturesOfRows(doc, labels) == PickPositions(SelectValid(doc.features), labels, 0)

\* C1: whenever main exports a GeoJSON, its features are exactly the
\* original features the filtered rows were built from (row i = the i-th
\* valid feature), in original order.
C1_ProjectionFaithful ==
    (export.called /\ ~ export.isNone) =>
        export.features = FeaturesOfRows(original_geojson, filtered_df)

\* C2: after is_ccw ran on a polygon, the flag is False when the original
\* exterior ring is counter-clockwise and True when it is clockwise.
C2_WindingFlag ==
    (pcG = "done" /\ geom.type = "Polygon") =>
        /\ signed_area2(geom.polys[1]) > 0 => ccwFlag = PyFalse
        /\ signed_area2(geom.polys[1]) < 0 => ccwFlag = PyTrue

\* C3: a run of main replaces the stored original collection only when
\* its table build succeeds.
C3_StoredOnlyOnSuccess ==
    [][original_geojson' # original_geojson => df'.built]_vars

NoFilterSet == \A col \in Columns : ~ FilterIsSet(filters[col])

\* C4 (as amended): for a loaded collection, filtered rows <= table rows <=
\* input features; the filtered rows are all the rows when no filter value
\* is set; and the table has one row per input feature exactly when every
\* feature's geometry is a mapping.
C4_RowCounts ==
    df.built =>
        /\ Cardinality(filtered_df) <= Len(df.rows)
        /\ Len(df.rows) <= Len(geojson_data.features)
        /\ NoFilterSet => Cardinality(filtered_df) = Len(df.rows)
        /\ Len(df.rows) = Len(geojson_data.features)
             <=> \A i \in 1..Len(geojson_data.features) :
                    geojson_data.features[i].geometry.type \notin {"null", "text"}

\* C4 (as claimed), left equality: the filtered rows are all the rows if
\* and only if no constraint is active.  Fails after loading one polygon:
\* the default slider ranges are set filters and keep the row.
C4_LeftIff ==
    df.built => (Cardinality(filtered_df) = Len(df.rows) <=> NoFilterSet)

\* C4 (as claimed), right equality: the table has one row per feature if
\* and only if every feature has a non-null geometry.  Fails on a
\* collection holding a feature whose geometry is a string and no null
\* geometry: the string is not None, and the feature is skipped.
C4_RightIff ==
    df.built =>
        (Len(df.rows) = Len(geojson_data.features)
           <=> \A i \in 1..Len(geojson_data.features) :
                  geojson_data.features[i].geometry.type # "null")

\* C4 (as claimed): ... with equality on the left if and only if no
\* constraint is active, and on the right if and only if every feature has
\* a non-null geometry.
C4_RowCountsIff ==
    /\ df.built =>
          /\ Cardinality(filtered_df) <= Len(df.rows)
          /\ Len(df.rows) <= Len(geojson_data.features)
    /\ C4_LeftIff
    /\ C4_RightIff

\* C4 witness: a loaded collection without a null geometry, one feature of
\* which has a geometry that is no mapping and is skipped, and a set filter
\* that drops a row.
C4_Witness ==
    /\ df.built
    /\ ~ NoFilterSet
    /\ Cardinality(filtered_df) < Len(df.rows)
    /\ Len(df.rows) < Len(geojson_data.features)
    /\ \E i \in 1..Len(geojson_data.features) :
          geojson_data.features[i].geometry.type = "text"
    /\ \A i \in 1..Len(geojson_data.features) :
          geojson_data.features[i].geometry.type # "null"

\* C5: a collection with at least one valid feature always yields a table
\* with one row per valid feature, whatever the geometries are.
C5_BuildNeverAborts ==
    (geojson_data.tag = "collection" /\ SelectValid(geojson_data.features) # << >>) =>
        /\ df.built
        /\ Len(df.rows) = Len(SelectValid(geojson_data.features))

\* the only widget with a value is a multiselect of column col, and its
\* selection is empty
OnlyEmptySelection(col) ==
    /\ filters[col].kind = "list"
    /\ filters[col].sel = {}
    /\ \A other \in Columns \ {col} : filters[other].kind = "none"

\* C7: with an empty categorical selection and no other constraint, the
\* filtered table is the full table.
C7_EmptySelectionNoOp ==
    \A col \in Columns :
        (df.built /\ OnlyEmptySelection(col)) => filtered_df = RowLabels(df)

\* C7 witness: a table whose only widget is a multiselect with nothing
\* selected, all rows shown.
C7_Witness ==
    /\ df.built
    /\ OnlyEmptySelection("cat")
    /\ Len(df.rows) >= 1
    /\ filtered_df = RowLabels(df)

\* C8: filter_geojson returns None when the original collection is absent
\* or has no "features", and when no row is selected; it never returns a
\* FeatureCollection without features.
C8_NullWhenNothing ==
    pcP = "done" =>
        /\ (pOriginal.tag # "collection" \/ pSelected = {}) => pResult.isNone
        /\ ~ pResult.isNone => Len(pResult.features) > 0

\* the fractional decimal digits of a coordinate counted in 1e-7
FracDigits(c) == IF c = 0 THEN 0 ELSE 7 - TrailingZeros(Abs(c))

CoordsOf(g) ==
    { Flatten(g.polys)[i][k] : i \in 1..Len(Flatten(g.polys)), k \in 1..2 }

\* C9: for a Polygon / MultiPolygon the excess-precision flag is False when
\* every exterior coordinate has at most 6 fractional digits and True (not
\* None) when some coordinate has a 7th.
C9_PrecisionFlag ==
    (pcG = "done" /\ geom.type \in {"Polygon", "MultiPolygon"}) =>
        /\ (\A c \in CoordsOf(geom) : FracDigits(c) <= MaxDecimals) => decFlag = PyFalse
        /\ (\E c \in CoordsOf(geom) : FracDigits(c) > MaxDecimals) => decFlag = PyTrue

\* C6: for a column with a parseable value, create_numeric_filter offers a
\* range whose lower bound is below its upper bound.
C6_RangeNonDegenerate ==
    (pcN = "done" /\ ValidValues(column) # {}) =>
        /\ numBounds.some
        /\ numBounds.lo < numBounds.hi

\* C10: the default range of create_numeric_filter keeps every row whose
\* cell is a parseable number.
C10_DefaultRangeKeepsAll ==
    pcN = "done" =>
        \A i \in 1..Len(column) : column[i] # Null => i \in numKept

=============================================================================
